---- MODULE Spec2Model ----
(***************************************************************************)
(* Model of the CI/CD demo service of src/app.py: a Flask application with *)
(* four routes (/, /health, /api/echo, /api/info) and two error handlers   *)
(* (404, 500).  The state is the process environment, the module globals   *)
(* read from it at import time, the host name facility, the UTC clock and  *)
(* the responses the application has produced.                             *)
(*                                                                         *)
(* A response is the response object the application builds for a request; *)
(* HEAD is routed by Flask exactly as GET and is not drawn separately.     *)
(***************************************************************************)
EXTENDS Integers, Sequences, FiniteSets, TLC

VARIABLES
    environ,      \* os.environ: the process environment, name -> value or Unset
    VERSION,      \* module global VERSION, read at import (app.py:15)
    BUILD_SHA,    \* module global BUILD_SHA, read at import (app.py:16)
    bootEnviron,  \* history: the environment as it was at process start
    hostname,     \* what socket.gethostname() yields now (a name, or HostErr)
    clock,        \* the UTC wall clock, in ticks
    last,         \* the latest request answered, with its response
    prevTs,       \* the timestamp of the latest timestamped response before last
    pending,      \* requests accepted by the server and not yet answered
    nextId,       \* the id the next accepted request gets
    responses     \* id -> the responses produced for that request (a sequence)

vars == <<environ, VERSION, BUILD_SHA, bootEnviron, hostname, clock, last,
          prevTs, pending, nextId, responses>>

----------------------------------------------------------------------------
(* Bounds of the model *)

MaxClock == 2
TicksPerSec == 2
MaxRequests == 3
MaxInFlight == 2

----------------------------------------------------------------------------
(* The process environment *)

Unset == "<unset>"
EnvNames == {"APP_VERSION", "BUILD_SHA", "ENVIRONMENT"}

EnvValues(name) ==
    CASE name = "APP_VERSION" -> {Unset, "2.3.1"}
      [] name = "BUILD_SHA"   -> {Unset, "abc123"}
      [] name = "ENVIRONMENT" -> {Unset, "production"}

Environs == {e \in [EnvNames -> {Unset, "2.3.1", "abc123", "production"}] :
                \A n \in EnvNames : e[n] \in EnvValues(n)}

\* The environments the process is started in: nothing set, or everything set
BootEnvirons == {e \in Environs : \A n, k \in EnvNames : (e[n] = Unset) = (e[k] = Unset)}

\* os.getenv(name, default) on a given environment
getenv_in(env, name, default) ==
    IF env[name] = Unset THEN default ELSE env[name]

\* os.getenv(name, default): reads the environment as it is now
getenv(name, default) ==
    getenv_in(environ, name, default)

HostErr == "<OSError>"
Hostnames == {"web-1", "web-2"}

----------------------------------------------------------------------------
(* JSON texts, the Python values json.loads makes of them, and json.dumps. *)
(* A number literal is m * 10^e; isfloat says it has a fraction or an      *)
(* exponent part.  Literals of the model have at most two digits and lie   *)
(* outside the subnormal range and off the edge decade of the double range.*)

JNull == [t |-> "null"]
JBool(b) == [t |-> IF b THEN "true" ELSE "false"]
JNum(m, e, f) == [t |-> "num", m |-> m, e |-> e, isfloat |-> f]
JStr(s) == [t |-> "str", s |-> s]
JArr(items) == [t |-> "arr", items |-> items]
JObj(members) == [t |-> "obj", members |-> members]
JMember(n, v) == [name |-> n, value |-> v]

Abs(n) == IF n < 0 THEN -n ELSE n

RECURSIVE Digits(_)
Digits(n) == IF n < 10 THEN 1 ELSE 1 + Digits(n \div 10)

\* m * 10^e without trailing zeros in m
RECURSIVE Norm(_, _)
Norm(m, e) ==
    IF m = 0 THEN <<0, 0>>
    ELSE IF m % 10 = 0 THEN Norm(m \div 10, e + 1)
    ELSE <<m, e>>

\* float("<m>e<e>"): an IEEE double; out of range it is inf or 0.0
float_of(m, e) ==
    LET mag == Digits(Abs(m)) - 1 + e
    IN  IF m # 0 /\ mag > 308 THEN [py |-> "inf", neg |-> m < 0]
        ELSE IF m = 0 \/ mag < -324 THEN [py |-> "float", m |-> 0, e |-> 0]
        ELSE [py |-> "float", m |-> Norm(m, e)[1], e |-> Norm(m, e)[2]]

\* d[k] = v on an insertion-ordered dict (a sequence of key/value pairs)
dict_set(d, k, v) ==
    IF \E i \in 1..Len(d) : d[i].key = k
    THEN [i \in 1..Len(d) |-> IF d[i].key = k THEN [key |-> k, value |-> v] ELSE d[i]]
    ELSE Append(d, [key |-> k, value |-> v])

RECURSIVE loads(_)
RECURSIVE load_members(_, _)

\* json.loads on a well-formed text
loads(j) ==
    CASE j.t = "null"  -> [py |-> "None"]
      [] j.t = "true"  -> [py |-> "bool", v |-> TRUE]
      [] j.t = "false" -> [py |-> "bool", v |-> FALSE]
      [] j.t = "num"   -> IF j.isfloat THEN float_of(j.m, j.e)
                          ELSE [py |-> "int", v |-> j.m]
      [] j.t = "str"   -> [py |-> "str", v |-> j.s]
      [] j.t = "arr"   -> [py |-> "list",
                           items |-> [i \in 1..Len(j.items) |-> loads(j.items[i])]]
      [] j.t = "obj"   -> [py |-> "dict", items |-> load_members(j.members, <<>>)]

load_members(members, d) ==
    IF members = <<>> THEN d
    ELSE load_members(Tail(members),
                      dict_set(d, Head(members).name, loads(Head(members).value)))

RECURSIVE dumps(_)

\* json.dumps (allow_nan is left at its default: inf is written as Infinity)
dumps(p) ==
    CASE p.py = "None"  -> JNull
      [] p.py = "bool"  -> JBool(p.v)
      [] p.py = "int"   -> JNum(p.v, 0, FALSE)
      [] p.py = "float" -> JNum(p.m, p.e, TRUE)
      [] p.py = "inf"   -> [t |-> IF p.neg THEN "-Infinity" ELSE "Infinity"]
      [] p.py = "str"   -> JStr(p.v)
      [] p.py = "list"  -> JArr([i \in 1..Len(p.items) |-> dumps(p.items[i])])
      [] p.py = "dict"  -> JObj([i \in 1..Len(p.items) |->
                                   JMember(p.items[i].key, dumps(p.items[i].value))])

----------------------------------------------------------------------------
(* Requests *)

JsonMime == "application/json"
NoMime == "<none>"

HelloText == JObj(<<JMember("message", JStr("hello")), JMember("number", JNum(42, 0, FALSE))>>)

\* The well-formed JSON texts the model posts
JsonTexts ==
    { HelloText,
      JNull,
      JArr(<<JBool(TRUE), JNum(1, 2, TRUE)>>),
      JObj(<<JMember("test", JStr("data")), JMember("test", JNum(15, -1, TRUE))>>),
      JNum(1, 400, TRUE) }

Body(text) == [kind |-> "json", text |-> text]
Malformed == [kind |-> "malformed"]
Empty == [kind |-> "empty"]

Req(m, p, c, b) == [method |-> m, path |-> p, content_type |-> c, body |-> b]

Methods == {"GET", "POST", "OPTIONS"}

EchoPath == <<"api", "echo">>
DefinedPaths == { <<>>, <<"health">>, EchoPath, <<"api", "info">> }
Paths == DefinedPaths \cup { <<"nonexistent">>, <<"static", "app.js">> }

Requests ==
    { Req(m, p, NoMime, Empty) : m \in Methods, p \in Paths }
    \cup { Req("POST", EchoPath, JsonMime, b) :
             b \in {Body(t) : t \in JsonTexts} \cup {Malformed, Empty} }
    \cup { Req("POST", EchoPath, "text/plain", Body(HelloText)) }

----------------------------------------------------------------------------
(* What the framework does for the application *)

Ok(resp) == [exc |-> "none", resp |-> resp]
Raise(e) == [exc |-> e]

\* flask.jsonify(d): a 200 response with a JSON body
jsonify(d) ==
    [status |-> 200, content_type |-> JsonMime, body |-> [kind |-> "json", json |-> d]]

\* "return response, code" in a view or an error handler
with_status(resp, code) ==
    [resp EXCEPT !.status = code]

\* A faulty variant of utcnow: the time is cut to whole seconds
utcnow_whole_seconds ==
    (clock \div TicksPerSec) * TicksPerSec

\* datetime.utcnow(): the wall clock now
utcnow ==
    clock

\* datetime.isoformat(): the fraction is left out when it is zero
isoformat(c) ==
    [sec |-> c \div TicksPerSec,
     frac |-> IF c % TicksPerSec = 0 THEN <<>> ELSE <<c % TicksPerSec>>]

\* request.is_json
is_json(req) ==
    req.content_type = JsonMime

\* A faulty variant of get_json: get_json(silent=True), a body that fails to parse is None
get_json_silent(req, legacy) ==
    IF ~is_json(req) \/ req.body.kind # "json"
    THEN [exc |-> "none", value |-> [py |-> "None"]]
    ELSE [exc |-> "none", value |-> loads(req.body.text)]

\* request.get_json(): without a JSON content type it answers 415, or None
\* before Flask 2.1 (legacy); a body that is not JSON raises BadRequest
get_json(req, legacy) ==
    IF ~is_json(req)
    THEN IF legacy THEN [exc |-> "none", value |-> [py |-> "None"]]
         ELSE Raise("UnsupportedMediaType")
    ELSE IF req.body.kind # "json" THEN Raise("BadRequest")
    ELSE [exc |-> "none", value |-> loads(req.body.text)]

\* socket.gethostname()
gethostname ==
    IF hostname = HostErr THEN Raise("OSError") ELSE [exc |-> "none", value |-> hostname]

\* The URL map: the four routes of app.py and the static route Flask(__name__) adds
url_map ==
    { [rule |-> <<>>, prefix |-> FALSE, endpoint |-> "home",
       methods |-> {"GET", "HEAD", "OPTIONS"}],
      [rule |-> <<"health">>, prefix |-> FALSE, endpoint |-> "health",
       methods |-> {"GET", "HEAD", "OPTIONS"}],
      [rule |-> EchoPath, prefix |-> FALSE, endpoint |-> "echo",
       methods |-> {"POST", "OPTIONS"}],
      [rule |-> <<"api", "info">>, prefix |-> FALSE, endpoint |-> "info",
       methods |-> {"GET", "HEAD", "OPTIONS"}],
      [rule |-> <<"static">>, prefix |-> TRUE, endpoint |-> "static",
       methods |-> {"GET", "HEAD", "OPTIONS"}] }

rule_matches(r, path) ==
    IF r.prefix
    THEN Len(path) > Len(r.rule) /\ SubSeq(path, 1, Len(r.rule)) = r.rule
    ELSE path = r.rule

\* Routing: NotFound when no rule matches the path, MethodNotAllowed when
\* rules match the path and none allows the method
match_request(req) ==
    LET ms == {r \in url_map : rule_matches(r, req.path)}
    IN  IF ms = {} THEN Raise("NotFound")
        ELSE IF \E r \in ms : req.method \in r.methods
        THEN [exc |-> "none",
              endpoint |-> (CHOOSE r \in ms : req.method \in r.methods).endpoint]
        ELSE Raise("MethodNotAllowed")

----------------------------------------------------------------------------
(* The views and error handlers of app.py *)

home ==
    Ok(jsonify([service |-> "CI/CD Demo Application",
                version |-> VERSION,
                build_sha |-> BUILD_SHA,
                status |-> "running",
                timestamp |-> isoformat(utcnow)]))

\* A faulty variant of health: a host name that fails to resolve is reported as "unknown"
health_default_hostname ==
    Ok(with_status(jsonify([status |-> "healthy",
                            version |-> VERSION,
                            hostname |-> IF gethostname.exc # "none" THEN "unknown"
                                         ELSE gethostname.value,
                            timestamp |-> isoformat(utcnow)]), 200))

health ==
    IF gethostname.exc # "none" THEN Raise(gethostname.exc)
    ELSE Ok(with_status(jsonify([status |-> "healthy",
                                 version |-> VERSION,
                                 hostname |-> gethostname.value,
                                 timestamp |-> isoformat(utcnow)]), 200))

echo(req, legacy) ==
    LET data == get_json(req, legacy)
    IN  IF data.exc # "none" THEN Raise(data.exc)
        ELSE Ok(jsonify([received |-> dumps(data.value),
                         version |-> VERSION,
                         timestamp |-> isoformat(utcnow)]))

\* A faulty variant of info: the version is read from the environment at each request
info_live_version ==
    IF gethostname.exc # "none" THEN Raise(gethostname.exc)
    ELSE Ok(jsonify([application |->
                        [name |-> "CI/CD Demo Application",
                         version |-> getenv("APP_VERSION", "1.0.0"),
                         build_sha |-> BUILD_SHA,
                         environment |-> getenv("ENVIRONMENT", "development")],
                     system |->
                        [hostname |-> gethostname.value,
                         python_version |-> "3.x"],
                     timestamp |-> isoformat(utcnow)]))

info ==
    IF gethostname.exc # "none" THEN Raise(gethostname.exc)
    ELSE Ok(jsonify([application |->
                        [name |-> "CI/CD Demo Application",
                         version |-> VERSION,
                         build_sha |-> BUILD_SHA,
                         environment |-> getenv("ENVIRONMENT", "development")],
                     system |->
                        [hostname |-> gethostname.value,
                         python_version |-> "3.x"],
                     timestamp |-> isoformat(utcnow)]))

\* A faulty variant of not_found: the version is read from the environment at each request
not_found_live_version ==
    with_status(jsonify([error |-> "Not Found",
                         message |-> "The requested resource does not exist",
                         version |-> getenv("APP_VERSION", "1.0.0")]), 404)

not_found ==
    with_status(jsonify([error |-> "Not Found",
                         message |-> "The requested resource does not exist",
                         version |-> VERSION]), 404)

internal_error ==
    with_status(jsonify([error |-> "Internal Server Error",
                         message |-> "An unexpected error occurred",
                         version |-> VERSION]), 500)

----------------------------------------------------------------------------
(* Dispatch *)

\* The response werkzeug makes of an HTTP exception no handler is registered for
default_exception_response(code) ==
    [status |-> code, content_type |-> "text/html; charset=utf-8",
     body |-> [kind |-> "html"]]

\* Flask's automatic answer to OPTIONS on a path a rule matches
options_response ==
    [status |-> 200, content_type |-> "text/html; charset=utf-8",
     body |-> [kind |-> "empty"]]

\* The error handlers registered with @app.errorhandler: 404 and 500.  Any
\* other HTTP exception is its own response; any other exception is a 500.
handle_user_exception(exc) ==
    CASE exc = "NotFound"             -> not_found
      [] exc = "MethodNotAllowed"     -> default_exception_response(405)
      [] exc = "BadRequest"           -> default_exception_response(400)
      [] exc = "UnsupportedMediaType" -> default_exception_response(415)
      [] OTHER                        -> internal_error

\* The static view: the application ships no static file
send_static_file ==
    Raise("NotFound")

dispatch_request(endpoint, req, legacy) ==
    CASE endpoint = "home"   -> home
      [] endpoint = "health" -> health
      [] endpoint = "echo"   -> echo(req, legacy)
      [] endpoint = "info"   -> info
      [] endpoint = "static" -> send_static_file

full_dispatch_request(req, legacy) ==
    LET m == match_request(req)
    IN  IF m.exc # "none" THEN handle_user_exception(m.exc)
        ELSE IF req.method = "OPTIONS" THEN options_response
        ELSE LET rv == dispatch_request(m.endpoint, req, legacy)
             IN  IF rv.exc = "none" THEN rv.resp ELSE handle_user_exception(rv.exc)

\* What answers the request: a view's name, "<options>", or the routing error
Target(req) ==
    LET m == match_request(req)
    IN  IF m.exc # "none" THEN m.exc
        ELSE IF req.method = "OPTIONS" THEN "<options>"
        ELSE m.endpoint

\* Target, worked out once for each request of the model
TargetOf == [req \in Requests |-> Target(req)]

----------------------------------------------------------------------------
(* Readers of a response *)

HasJson(resp) == resp.body.kind = "json"
HasField(resp, f) == HasJson(resp) /\ f \in DOMAIN resp.body.json
HasTimestamp(resp) == HasField(resp, "timestamp")

\* Parsing an ISO-8601 timestamp back to ticks
parse_ts(ts) ==
    ts.sec * TicksPerSec + (IF ts.frac = <<>> THEN 0 ELSE ts.frac[1])

\* The JSON body without its timestamp
Content(resp) ==
    IF HasJson(resp)
    THEN [kind |-> "json",
          json |-> [f \in DOMAIN resp.body.json \ {"timestamp"} |-> resp.body.json[f]]]
    ELSE resp.body

----------------------------------------------------------------------------
(* The service, one request at a time *)

NoResponse == [req |-> "<none>"]

Init ==
    /\ environ \in BootEnvirons
    /\ VERSION = getenv("APP_VERSION", "1.0.0")
    /\ BUILD_SHA = getenv("BUILD_SHA", "dev")
    /\ bootEnviron = environ
    /\ hostname \in Hostnames \cup {HostErr}
    /\ clock = 0
    /\ last = NoResponse
    /\ prevTs = -1
    /\ pending = {}
    /\ nextId = 1
    /\ responses = [i \in 1..MaxRequests |-> <<>>]

\* The request is routed, answered, and the answer recorded
Serve(req, legacy) ==
    /\ last' = [req |-> req, resp |-> full_dispatch_request(req, legacy),
                host |-> hostname, at |-> clock]
    /\ prevTs' = IF last # NoResponse /\ HasTimestamp(last.resp)
                 THEN parse_ts(last.resp.body.json.timestamp)
                 ELSE prevTs
    /\ UNCHANGED <<environ, VERSION, BUILD_SHA, bootEnviron, hostname, clock,
                   pending, nextId, responses>>

Home ==
    \E req \in Requests : TargetOf[req] = "home" /\ Serve(req, FALSE)

Health ==
    \E req \in Requests : TargetOf[req] = "health" /\ Serve(req, FALSE)

Echo ==
    \E req \in Requests, legacy \in BOOLEAN : TargetOf[req] = "echo" /\ Serve(req, legacy)

Info ==
    \E req \in Requests : TargetOf[req] = "info" /\ Serve(req, FALSE)

Static ==
    \E req \in Requests : TargetOf[req] = "static" /\ Serve(req, FALSE)

Options ==
    \E req \in Requests : TargetOf[req] = "<options>" /\ Serve(req, FALSE)

NotFound ==
    \E req \in Requests : TargetOf[req] = "NotFound" /\ Serve(req, FALSE)

MethodNotAllowed ==
    \E req \in Requests : TargetOf[req] = "MethodNotAllowed" /\ Serve(req, FALSE)

\* The environment of the running process is changed (os.environ[name] = value)
SetEnv ==
    \E n \in EnvNames : \E v \in EnvValues(n) :
        /\ environ[n] # v
        /\ environ' = [environ EXCEPT ![n] = v]
        /\ UNCHANGED <<VERSION, BUILD_SHA, bootEnviron, hostname, clock, last,
                       prevTs, pending, nextId, responses>>

\* The host name facility starts or stops failing, or the host is renamed
SetHostname ==
    \E h \in Hostnames \cup {HostErr} :
        /\ hostname # h
        /\ hostname' = h
        /\ UNCHANGED <<environ, VERSION, BUILD_SHA, bootEnviron, clock, last,
                       prevTs, pending, nextId, responses>>

\* Time passes
Tick ==
    /\ clock < MaxClock
    /\ clock' = clock + 1
    /\ UNCHANGED <<environ, VERSION, BUILD_SHA, bootEnviron, hostname, last,
                   prevTs, pending, nextId, responses>>

Next ==
    \/ Home
    \/ Health
    \/ Echo
    \/ Info
    \/ Static
    \/ Options
    \/ NotFound
    \/ MethodNotAllowed
    \/ SetEnv
    \/ SetHostname
    \/ Tick

Spec == Init /\ [][Next]_vars

----------------------------------------------------------------------------
(* The service with requests in flight: a request is accepted, and answered *)
(* later, while other requests are accepted and answered in between.        *)

ConcRequests ==
    { Req("GET", <<>>, NoMime, Empty),
      Req("GET", <<"api", "info">>, NoMime, Empty),
      Req("POST", EchoPath, JsonMime, Body(HelloText)),
      Req("GET", <<"nonexistent">>, NoMime, Empty) }

Receive ==
    \E req \in ConcRequests :
        /\ nextId <= MaxRequests
        /\ Cardinality(pending) < MaxInFlight
        /\ pending' = pending \cup {[id |-> nextId, req |-> req]}
        /\ nextId' = nextId + 1
        /\ UNCHANGED <<environ, VERSION, BUILD_SHA, bootEnviron, hostname, clock,
                       last, prevTs, responses>>

Complete ==
    \E p \in pending, legacy \in BOOLEAN :
        /\ responses' = [responses EXCEPT ![p.id] =
                            Append(@, [req |-> p.req,
                                       resp |-> full_dispatch_request(p.req, legacy),
                                       host |-> hostname])]
        /\ pending' = pending \ {p}
        /\ UNCHANGED <<environ, VERSION, BUILD_SHA, bootEnviron, hostname, clock,
                       last, prevTs, nextId>>

NextConc ==
    \/ Receive
    \/ Complete
    \/ SetEnv
    \/ SetHostname

SpecConc == Init /\ [][NextConc]_vars

----------------------------------------------------------------------------
(* Vocabulary of the properties *)

Answered == last # NoResponse

\* The configuration the process was started with
BootVersion == getenv_in(bootEnviron, "APP_VERSION", "1.0.0")
BootBuildSha == getenv_in(bootEnviron, "BUILD_SHA", "dev")
BootEnvironment == getenv_in(bootEnviron, "ENVIRONMENT", "development")

CarriesVersion(resp) ==
    HasField(resp, "version") \/ HasField(resp, "application")

VersionOf(resp) ==
    IF HasField(resp, "application") THEN resp.body.json.application.version
    ELSE resp.body.json.version

\* The JSON value a text stands for: numbers by their value, objects by
\* their members (the last of two members of one name), arrays by their items
RECURSIVE Denote(_)
Denote(j) ==
    CASE j.t \in {"null", "true", "false"} -> [t |-> j.t]
      [] j.t = "num" -> [t |-> "num", m |-> Norm(j.m, j.e)[1], e |-> Norm(j.m, j.e)[2]]
      [] j.t = "str" -> j
      [] j.t = "arr" -> [t |-> "arr",
                         items |-> [i \in 1..Len(j.items) |-> Denote(j.items[i])]]
      [] j.t = "obj" ->
            [t |-> "obj",
             fields |-> [n \in {j.members[i].name : i \in 1..Len(j.members)} |->
                LET k == CHOOSE i \in 1..Len(j.members) :
                            /\ j.members[i].name = n
                            /\ \A i2 \in 1..Len(j.members) :
                                  j.members[i2].name = n => i2 <= i
                IN  Denote(j.members[k].value)]]
      [] OTHER -> [t |-> "invalid"]

IsEchoPost(req) ==
    req.method = "POST" /\ req.path = EchoPath /\ is_json(req)

----------------------------------------------------------------------------
(* C1  Echo round trip *)

\* C1: for every well-formed JSON value posted to /api/echo with a JSON
\* content type the response is 200 and its received field stands for the
\* very value that was posted.
C1_EchoRoundTrip ==
    (Answered /\ IsEchoPost(last.req) /\ last.req.body.kind = "json")
        => /\ last.resp.status = 200
           /\ HasField(last.resp, "received")
           /\ Denote(last.resp.body.json.received) = Denote(last.req.body.text)

----------------------------------------------------------------------------
(* C2  The three GET routes *)

InfoRoutes == { <<>>, <<"health">>, <<"api", "info">> }

ReportsBootVersion(resp) ==
    /\ resp.status = 200
    /\ resp.content_type = JsonMime
    /\ CarriesVersion(resp)
    /\ VersionOf(resp) = BootVersion

\* C2 as stated: every request to /, /health or /api/info is answered 200
\* with application/json and the configured version.
C2_AllRequestsOk ==
    (Answered /\ last.req.path \in InfoRoutes) => ReportsBootVersion(last.resp)

\* C2 as amended: every GET request to /, and every GET request to /health
\* or /api/info during which the host name resolves, is answered 200 with
\* application/json and the version the process was started with (1.0.0
\* when APP_VERSION was unset).
C2_GetRequestsOk ==
    (/\ Answered
     /\ last.req.path \in InfoRoutes
     /\ last.req.method = "GET"
     /\ (last.req.path = <<>> \/ last.host # HostErr))
        => ReportsBootVersion(last.resp)

C2_Witness ==
    /\ Answered
    /\ last.req = Req("GET", <<"api", "info">>, NoMime, Empty)
    /\ last.host # HostErr
    /\ BootVersion = "2.3.1"
    /\ environ["APP_VERSION"] = Unset
    /\ last.resp.status = 200

----------------------------------------------------------------------------
(* C3  Undefined paths *)

\* C3: a request to a path that is none of the four defined routes, with
\* any method, is answered 404 with a JSON body whose error is "Not Found"
\* and which has a version field.
C3_UndefinedPathIs404 ==
    (Answered /\ last.req.path \notin DefinedPaths)
        => /\ last.resp.status = 404
           /\ HasField(last.resp, "error")
           /\ last.resp.body.json.error = "Not Found"
           /\ HasField(last.resp, "version")

----------------------------------------------------------------------------
(* C4  Every response is JSON *)

RECURSIVE WellFormed(_)
WellFormed(j) ==
    CASE j.t \in {"null", "true", "false", "num", "str"} -> TRUE
      [] j.t = "arr" -> \A i \in 1..Len(j.items) : WellFormed(j.items[i])
      [] j.t = "obj" -> \A i \in 1..Len(j.members) : WellFormed(j.members[i].value)
      [] OTHER -> FALSE

\* C4: every request, whatever its path, method and body, is answered with
\* a JSON body and Content-Type application/json.
C4_AlwaysJson ==
    Answered
        => /\ last.resp.content_type = JsonMime
           /\ HasJson(last.resp)
           /\ (HasField(last.resp, "received")
                  => WellFormed(last.resp.body.json.received))

----------------------------------------------------------------------------
(* C5  One version everywhere *)

\* C5: every response that carries a version field (the four routes, the
\* 404 and the 500 responses) reports the APP_VERSION the process was
\* started with (1.0.0 when it was unset), whatever the environment has
\* become since.
C5_VersionIsBootVersion ==
    (Answered /\ CarriesVersion(last.resp)) => VersionOf(last.resp) = BootVersion

C5_Witness ==
    /\ Answered
    /\ last.resp.status = 404
    /\ CarriesVersion(last.resp)
    /\ BootVersion = "2.3.1"
    /\ VersionOf(last.resp) = "2.3.1"
    /\ environ["APP_VERSION"] = Unset

----------------------------------------------------------------------------
(* C6  Configuration is read once *)

\* C6: after any requests and any change of the environment, every response
\* reports the version, build_sha and environment the process started with.
C6_ConfigIsBootConfig ==
    Answered =>
        /\ CarriesVersion(last.resp) => VersionOf(last.resp) = BootVersion
        /\ HasField(last.resp, "build_sha")
              => last.resp.body.json.build_sha = BootBuildSha
        /\ HasField(last.resp, "application")
              => /\ last.resp.body.json.application.build_sha = BootBuildSha
                 /\ last.resp.body.json.application.environment = BootEnvironment

----------------------------------------------------------------------------
(* C7  Malformed JSON on /api/echo *)

MalformedEchoPost(req) ==
    IsEchoPost(req) /\ req.body.kind # "json"

----------------------------------------------------------------------------
(* C8  Host name failure *)

IsInternalError(resp) ==
    /\ resp.status = 500
    /\ HasJson(resp)
    /\ DOMAIN resp.body.json = {"error", "message", "version"}
    /\ resp.body.json.error = "Internal Server Error"
    /\ resp.body.json.version = BootVersion

HostnameOf(resp) ==
    IF HasField(resp, "system") THEN resp.body.json.system.hostname
    ELSE resp.body.json.hostname

\* C8: the host name is resolved while the request is handled; when that
\* fails during a request /health or /api/info serves, no default takes its
\* place and the request ends as the 500 response {error, message,
\* version}; when it succeeds the response reports the name resolved then;
\* requests / and /api/echo serve never end in that failure.
C8_HostnameFailureIs500 ==
    Answered =>
        /\ (Target(last.req) \in {"health", "info"} /\ last.host = HostErr)
              => IsInternalError(last.resp)
        /\ (Target(last.req) \in {"health", "info"} /\ last.host # HostErr)
              => /\ last.resp.status = 200
                 /\ HostnameOf(last.resp) = last.host
        /\ Target(last.req) \in {"home", "echo"} => last.resp.status # 500

C8_Witness ==
    /\ Answered
    /\ Target(last.req) = "health"
    /\ last.host = HostErr
    /\ last.resp.status = 500
    /\ hostname # HostErr

----------------------------------------------------------------------------
(* C9  Timestamps *)

----------------------------------------------------------------------------
(* C10  Requests in flight *)

Ids == 1..MaxRequests
PendingIds == {p.id : p \in pending}

\* C10: under any interleaving each request ends with exactly one response,
\* and the status and the content, timestamp aside, of that response depend
\* only on the request, the startup configuration and the host name: two
\* equal requests handled under the same host name are answered alike.
C10_AnswerDependsOnRequestOnly ==
    /\ \A i \in Ids :
          /\ Len(responses[i]) <= 1
          /\ i \in PendingIds => Len(responses[i]) = 0
          /\ (i < nextId /\ i \notin PendingIds) => Len(responses[i]) = 1
    /\ \A i, j \in Ids :
          (/\ Len(responses[i]) = 1
           /\ Len(responses[j]) = 1
           /\ responses[i][1].req = responses[j][1].req
           /\ responses[i][1].host = responses[j][1].host)
              => /\ responses[i][1].resp.status = responses[j][1].resp.status
                 /\ Content(responses[i][1].resp) = Content(responses[j][1].resp)

====
